---- MODULE Spec2Model ----
(***************************************************************************)
(* Football league standings (src/src/main.rs).                            *)
(*                                                                         *)
(* A String is a sequence of one-character strings, so that splitting,     *)
(* trimming, joining, number parsing and formatting are computed as the    *)
(* code computes them.  The input stream is a sequence of reader items:    *)
(* Ok(line) or a read error.                                               *)
(***************************************************************************)
EXTENDS Integers, Sequences, FiniteSets, TLC

\* Longest input stream explored (number of items the reader can yield).
MaxLines == 3

(***************************************************************************)
(* Characters and strings                                                  *)
(***************************************************************************)

\* Byte value of the characters used in the inputs (String::cmp compares bytes).
Byte ==
    ("\t" :> 9) @@ ("\n" :> 10) @@ (" " :> 32) @@ ("+" :> 43) @@ ("," :> 44) @@
    ("-" :> 45) @@ ("." :> 46) @@
    ("0" :> 48) @@ ("1" :> 49) @@ ("2" :> 50) @@ ("3" :> 51) @@ ("4" :> 52) @@
    ("5" :> 53) @@ ("6" :> 54) @@ ("7" :> 55) @@ ("8" :> 56) @@ ("9" :> 57) @@
    ("A" :> 65) @@ ("B" :> 66) @@ ("C" :> 67) @@
    ("a" :> 97) @@ ("p" :> 112) @@ ("s" :> 115) @@ ("t" :> 116) @@ ("x" :> 120)

\* char::is_whitespace, restricted to the characters above.
IsWhitespace(c) == c \in {" ", "\t", "\n"}

IsDigit(c) == c \in {"0", "1", "2", "3", "4", "5", "6", "7", "8", "9"}

DigitValue(c) == Byte[c] - 48

DigitChar(d) == <<"0", "1", "2", "3", "4", "5", "6", "7", "8", "9">>[d + 1]

\* str::trim_start
RECURSIVE TrimStart(_)
TrimStart(s) ==
    IF s # <<>> /\ IsWhitespace(Head(s)) THEN TrimStart(Tail(s)) ELSE s

\* str::trim_end
RECURSIVE TrimEnd(_)
TrimEnd(s) ==
    IF s # <<>> /\ IsWhitespace(s[Len(s)])
    THEN TrimEnd(SubSeq(s, 1, Len(s) - 1))
    ELSE s

\* str::trim
Trim(s) == TrimEnd(TrimStart(s))

\* str::split(sep): the pieces between separators, empty pieces included.
RECURSIVE Split(_, _)
Split(s, sep) ==
    IF \A i \in 1..Len(s) : s[i] # sep
    THEN <<s>>
    ELSE LET i == CHOOSE k \in 1..Len(s) :
                    s[k] = sep /\ \A j \in 1..(k - 1) : s[j] # sep
         IN  <<SubSeq(s, 1, i - 1)>> \o Split(SubSeq(s, i + 1, Len(s)), sep)

\* str::split_terminator(sep): as split, without a trailing empty piece.
SplitTerminator(s, sep) ==
    LET p == Split(s, sep)
    IN  IF p[Len(p)] = <<>> THEN SubSeq(p, 1, Len(p) - 1) ELSE p

\* Length of the leading run of non-whitespace characters of s.
RECURSIVE WordLen(_)
WordLen(s) ==
    IF s = <<>> \/ IsWhitespace(Head(s)) THEN 0 ELSE 1 + WordLen(Tail(s))

\* str::split_whitespace: the maximal non-whitespace runs, in order.
RECURSIVE SplitWhitespace(_)
SplitWhitespace(s) ==
    LET t == TrimStart(s)
    IN  IF t = <<>>
        THEN <<>>
        ELSE LET n == WordLen(t)
             IN  <<SubSeq(t, 1, n)>> \o SplitWhitespace(SubSeq(t, n + 1, Len(t)))

\* [&str]::join(sep)
RECURSIVE Join(_, _)
Join(parts, sep) ==
    IF parts = <<>> THEN <<>>
    ELSE IF Len(parts) = 1 THEN parts[1]
    ELSE parts[1] \o sep \o Join(Tail(parts), sep)

\* Value of a sequence of decimal digits.
RECURSIVE DigitsValue(_)
DigitsValue(ds) ==
    IF ds = <<>> THEN 0
    ELSE 10 * DigitsValue(SubSeq(ds, 1, Len(ds) - 1)) + DigitValue(ds[Len(ds)])

\* A digit sequence without its leading zeros.
RECURSIVE StripZeros(_)
StripZeros(ds) ==
    IF ds # <<>> /\ Head(ds) = "0" THEN StripZeros(Tail(ds)) ELSE ds

\* The digits of u32::MAX (4294967295).
U32MaxDigits == <<"4", "2", "9", "4", "9", "6", "7", "2", "9", "5">>

\* Whether the digits a and b, of equal length, satisfy a <= b as numbers.
RECURSIVE DigitsLeq(_, _)
DigitsLeq(a, b) ==
    IF a = <<>> THEN TRUE
    ELSE IF DigitValue(Head(a)) < DigitValue(Head(b)) THEN TRUE
    ELSE IF DigitValue(Head(a)) > DigitValue(Head(b)) THEN FALSE
    ELSE DigitsLeq(Tail(a), Tail(b))

\* Whether the value of the digits fits a u32 (no overflow in the parse).
FitsU32(ds) ==
    LET n == StripZeros(ds)
    IN  \/ Len(n) < Len(U32MaxDigits)
        \/ Len(n) = Len(U32MaxDigits) /\ DigitsLeq(n, U32MaxDigits)

\* str::parse::<u32>: an optional '+', then one or more digits, value <= u32::MAX.
ParseU32(tok) ==
    LET ds == IF tok # <<>> /\ Head(tok) = "+" THEN Tail(tok) ELSE tok
    IN  IF /\ ds # <<>>
           /\ \A i \in 1..Len(ds) : IsDigit(ds[i])
           /\ FitsU32(ds)
        THEN [ok |-> TRUE, val |-> DigitsValue(ds)]
        ELSE [ok |-> FALSE, val |-> 0]

\* Display of an unsigned integer ({line}, {score} in format!).
RECURSIVE ToDecimal(_)
ToDecimal(n) ==
    IF n < 10 THEN <<DigitChar(n)>>
    ELSE ToDecimal(n \div 10) \o <<DigitChar(n % 10)>>

\* Ordering of String (byte-wise lexicographic): -1 Less, 0 Equal, 1 Greater.
RECURSIVE StrCmp(_, _)
StrCmp(a, b) ==
    IF a = <<>> /\ b = <<>> THEN 0
    ELSE IF a = <<>> THEN -1
    ELSE IF b = <<>> THEN 1
    ELSE IF Byte[Head(a)] < Byte[Head(b)] THEN -1
    ELSE IF Byte[Head(a)] > Byte[Head(b)] THEN 1
    ELSE StrCmp(Tail(a), Tail(b))

(***************************************************************************)
(* lex and parse                                                           *)
(***************************************************************************)

NoTokens == [kind |-> "None"]

\* The panic of indexing a Vec of length len at index (tokens[0], tokens[1]).
IndexPanic(len, index) == [kind |-> "Panic", len |-> len, index |-> index]

\* A loop that takes as the team the text before the last word, as written.
RECURSIVE LexHalfsRawName(_, _, _)
LexHalfsRawName(halfs, i, acc) ==
    IF i > Len(halfs)
    THEN [kind |-> "Some", tokens |-> acc]
    ELSE LET half == Trim(halfs[i])
         IN  IF half = <<>>
             THEN NoTokens
             ELSE LET parts == SplitWhitespace(half)
                      last  == parts[Len(parts)]
                      team  == TrimEnd(SubSeq(half, 1, Len(half) - Len(last)))
                      score == ParseU32(last)
                  IN  IF score.ok
                      THEN LexHalfsRawName(halfs, i + 1,
                                    Append(acc, [name |-> team, score |-> score.val]))
                      ELSE NoTokens

\* The for loop of lex over the halves from index i on: the list of
\* (team, score) pushed so far, or None at the first half that is empty
\* after trimming or whose last word is not a u32.
RECURSIVE LexHalfs(_, _, _)
LexHalfs(halfs, i, acc) ==
    IF i > Len(halfs)
    THEN [kind |-> "Some", tokens |-> acc]
    ELSE LET half == Trim(halfs[i])
         IN  IF half = <<>>
             THEN NoTokens
             ELSE LET parts == SplitWhitespace(half)
                      team  == Join(SubSeq(parts, 1, Len(parts) - 1), <<" ">>)
                      score == ParseU32(parts[Len(parts)])
                  IN  IF score.ok
                      THEN LexHalfs(halfs, i + 1,
                                    Append(acc, [name |-> team, score |-> score.val]))
                      ELSE NoTokens

\* fn lex: Some(Tokens), None, or the index panic of tokens[0] / tokens[1]
\* when fewer than two pairs were pushed.  Pairs after the second are dropped.
lex(string) ==
    LET halfs == SplitTerminator(string, ",")
        r     == LexHalfs(halfs, 1, <<>>)
    IN  IF r.kind = "None" THEN NoTokens
        ELSE IF Len(r.tokens) = 0 THEN IndexPanic(0, 0)
        ELSE IF Len(r.tokens) = 1 THEN IndexPanic(1, 1)
        ELSE [kind |-> "Some", team1 |-> r.tokens[1], team2 |-> r.tokens[2]]

\* A parse that names team1 the winner whenever the scores differ.
parseFirstWins(tokens) ==
    IF tokens.team1.score = tokens.team2.score
    THEN [kind |-> "Draw", team1 |-> tokens.team1.name, team2 |-> tokens.team2.name]
    ELSE [kind |-> "Win", won |-> tokens.team1.name, lost |-> tokens.team2.name]

\* fn parse
parse(tokens) ==
    IF tokens.team1.score > tokens.team2.score
    THEN [kind |-> "Win", won |-> tokens.team1.name, lost |-> tokens.team2.name]
    ELSE IF tokens.team1.score = tokens.team2.score
    THEN [kind |-> "Draw", team1 |-> tokens.team1.name, team2 |-> tokens.team2.name]
    ELSE [kind |-> "Win", won |-> tokens.team2.name, lost |-> tokens.team1.name]

(***************************************************************************)
(* The league mapping                                                      *)
(***************************************************************************)

\* League::new()
EmptyLeague == [t \in {} |-> 0]

\* league.entry(team).and_modify(|score| *score += add).or_insert(init)
AddOrInsert(lg, team, add, init) ==
    IF team \in DOMAIN lg
    THEN [lg EXCEPT ![team] = @ + add]
    ELSE (team :> init) @@ lg

\* league.entry(team).or_insert(init)
OrInsert(lg, team, init) ==
    IF team \in DOMAIN lg THEN lg ELSE (team :> init) @@ lg

\* A Win arm that stores 0 for the loser whether or not it is present.
ApplyWinResetsLoser(lg, won, lost) ==
    (lost :> 0) @@ AddOrInsert(lg, won, 3, 3)

\* The Win arm of the match on match_result.
ApplyWin(lg, won, lost) == OrInsert(AddOrInsert(lg, won, 3, 3), lost, 0)

\* A Draw arm that inserts an absent second team at 0.
ApplyDrawSecondAtZero(lg, team1, team2) ==
    AddOrInsert(AddOrInsert(lg, team1, 1, 1), team2, 1, 0)

\* The Draw arm of the match on match_result.
ApplyDraw(lg, team1, team2) ==
    AddOrInsert(AddOrInsert(lg, team1, 1, 1), team2, 1, 1)

\* The match on match_result.
Accumulate(lg, mr) ==
    IF mr.kind = "Win"
    THEN ApplyWin(lg, mr.won, mr.lost)
    ELSE ApplyDraw(lg, mr.team1, mr.team2)

(***************************************************************************)
(* Sorting and rendering                                                   *)
(***************************************************************************)

\* u32::cmp: -1 Less, 0 Equal, 1 Greater.
U32Cmp(x, y) == IF x < y THEN -1 ELSE IF x > y THEN 1 ELSE 0

\* A closure that compares the scores only and leaves ties as they come.
RowCmpScoreOnly(a, b) == U32Cmp(b.score, a.score)

\* A closure that sorts the scores ascending.
RowCmpAscending(a, b) ==
    IF a.score = b.score
    THEN StrCmp(a.team, b.team)
    ELSE U32Cmp(a.score, b.score)

\* The closure given to sort_by, on (score, team) rows.
RowCmp(a, b) ==
    IF a.score = b.score
    THEN StrCmp(a.team, b.team)
    ELSE U32Cmp(b.score, a.score)

\* The orders in which HashMap::into_iter can yield the entries, mapped to
\* (score, team) rows: every arrangement of the entries.
IterOrders(lg) ==
    LET n == Cardinality(DOMAIN lg)
    IN  { [i \in 1..n |-> [score |-> lg[f[i]], team |-> f[i]]] :
            f \in { g \in [1..n -> DOMAIN lg] :
                      \A i, j \in 1..n : i # j => g[i] # g[j] } }

\* Insert row x into the sorted rows v after every row that does not compare
\* Greater than x (a stable insertion).
RECURSIVE InsertRow(_, _)
InsertRow(v, x) ==
    IF v = <<>> THEN <<x>>
    ELSE IF RowCmp(v[Len(v)], x) <= 0 THEN Append(v, x)
    ELSE Append(InsertRow(SubSeq(v, 1, Len(v) - 1), x), v[Len(v)])

\* league.sort_by(closure): a stable sort of the rows.
RECURSIVE SortBy(_)
SortBy(v) ==
    IF v = <<>> THEN <<>>
    ELSE InsertRow(SortBy(SubSeq(v, 1, Len(v) - 1)), v[Len(v)])

\* A unit that is singular up to 1.
UnitSingularUpToOne(score) == IF score <= 1 THEN <<"p", "t">> ELSE <<"p", "t", "s">>

\* The unit chosen for a score.
Unit(score) == IF score = 1 THEN <<"p", "t">> ELSE <<"p", "t", "s">>

\* A rank that is the 0-based index (the increment forgotten).
RankOfZeroBased(i) == i

\* The rank written for the row at 0-based index i of the enumerate.
RankOf(i) == i + 1

\* format!("{line}. {team} {score} {unit}\n") for the row at 0-based index i.
FormatRow(i, row) ==
    ToDecimal(RankOf(i)) \o <<".", " ">> \o row.team \o <<" ">>
        \o ToDecimal(row.score) \o <<" ">> \o Unit(row.score) \o <<"\n">>

\* The rendering loop over the sorted rows, from 0-based index i on.
RECURSIVE RenderFrom(_, _)
RenderFrom(v, i) ==
    IF i >= Len(v) THEN <<>>
    ELSE FormatRow(i, v[i + 1]) \o RenderFrom(v, i + 1)

Render(v) == RenderFrom(v, 0)

(***************************************************************************)
(* The input stream                                                        *)
(***************************************************************************)

Ok(line) == [ok |-> TRUE, line |-> line]
ReadError == [ok |-> FALSE, line |-> <<>>]

\* "A 1, B 0"
LineAWinsB == <<"A", " ", "1", ",", " ", "B", " ", "0">>
\* "A 0,B 2"
LineBWinsA == <<"A", " ", "0", ",", "B", " ", "2">>
\* "B 1, A 1"
LineDraw == <<"B", " ", "1", ",", " ", "A", " ", "1">>
\* "A  B 1, A 1"
LineTwoWords == <<"A", " ", " ", "B", " ", "1", ",", " ", "A", " ", "1">>
\* "A 1, A 1"
LineSelfDraw == <<"A", " ", "1", ",", " ", "A", " ", "1">>
\* "A 2, A 0"
LineSelfWin == <<"A", " ", "2", ",", " ", "A", " ", "0">>
\* "A 1, B 0, C 3"
LineThreeHalfs == <<"A", " ", "1", ",", " ", "B", " ", "0", ",", " ", "C", " ", "3">>
\* "B 3, A B 0,"
LineTrailingComma == <<"B", " ", "3", ",", " ", "A", " ", "B", " ", "0", ",">>
\* " 1, B 0"
LineNoName == <<" ", "1", ",", " ", "B", " ", "0">>
\* "A 1"
LineNoCommaScore == <<"A", " ", "1">>
\* "A"
LineNoCommaWord == <<"A">>
\* "A 1,, B 0"
LineEmptyMiddle == <<"A", " ", "1", ",", ",", " ", "B", " ", "0">>
\* ",A 1"
LineEmptyFirst == <<",", "A", " ", "1">>
\* "A x,B 0"
LineNotNumber == <<"A", " ", "x", ",", "B", " ", "0">>
\* "A -1, B 0"
LineNegative == <<"A", " ", "-", "1", ",", " ", "B", " ", "0">>
\* ""
LineEmpty == <<>>
\* "  "
LineSpaces == <<" ", " ">>

InputLines ==
    { LineAWinsB, LineBWinsA, LineDraw, LineTwoWords, LineSelfDraw, LineSelfWin,
      LineThreeHalfs, LineTrailingComma, LineNoName, LineNoCommaScore,
      LineNoCommaWord, LineEmptyMiddle, LineEmptyFirst, LineNotNumber,
      LineNegative, LineEmpty, LineSpaces }

\* What the reader can yield for one line: the line, or a read error.
Items == { Ok(l) : l \in InputLines } \cup { ReadError }

\* The input streams explored.
Inputs == UNION { [1..n -> Items] : n \in 0..MaxLines }

(***************************************************************************)
(* The driver: main and football_league                                    *)
(***************************************************************************)

VARIABLES
    input,         \* the items the reader yields, in order
    pos,           \* how many items reader.next() has yielded
    league,        \* the HashMap from team name to points
    tokens,        \* the Tokens of the last lexed line
    match_result,  \* the MatchResult of the last parsed line
    standings,     \* the sorted Vec of (score, team)
    table,         \* the String football_league returns
    stdout,        \* what main has printed
    stderr,        \* the diagnostics written
    exit_code,     \* the exit status of the process, -1 while it runs
    pc             \* where the program is

vars == <<input, pos, league, tokens, match_result, standings, table,
          stdout, stderr, exit_code, pc>>

Init ==
    /\ input \in Inputs
    /\ pos = 0
    /\ league = EmptyLeague
    /\ tokens = NoTokens
    /\ match_result = [kind |-> "None"]
    /\ standings = <<>>
    /\ table = <<>>
    /\ stdout = <<>>
    /\ stderr = <<>>
    /\ exit_code = -1
    /\ pc = "reading"

\* The item reader.next() yields next, when there is one.
HasNext == pos < Len(input)
NextItem == input[pos + 1]

\* The 0-based index enumerate gives the next item.
line_n == pos

\* A blank test that forgets the trim.
IsBlankUntrimmed(line) == line = <<>>

\* line.trim().is_empty()
IsBlank(line) == Trim(line) = <<>>

\* A diagnostic that reports the 0-based index.
ReportedLineZeroBased(n) == n

\* The line number written in the diagnostic for the item of 0-based index n.
ReportedLine(n) == n + 1

\* reader.next() is None: the loop ends.
ReadEndOfInput ==
    /\ pc = "reading"
    /\ ~HasNext
    /\ pc' = "terminated"
    /\ UNCHANGED <<input, pos, league, tokens, match_result, standings, table,
                   stdout, stderr, exit_code>>

\* A loop that unwraps the item and panics on a read error.
ReadFailureUnwrapped ==
    /\ pc = "reading"
    /\ HasNext
    /\ ~NextItem.ok
    /\ pos' = pos + 1
    /\ stderr' = Append(stderr, [kind |-> "called unwrap on an Err value"])
    /\ exit_code' = 101
    /\ pc' = "panicked"
    /\ UNCHANGED <<input, league, tokens, match_result, standings, table, stdout>>

\* reader.next() is Some((_, Err(_))): the pattern does not match, the loop ends.
ReadFailure ==
    /\ pc = "reading"
    /\ HasNext
    /\ ~NextItem.ok
    /\ pos' = pos + 1
    /\ pc' = "terminated"
    /\ UNCHANGED <<input, league, tokens, match_result, standings, table,
                   stdout, stderr, exit_code>>

\* A line that is empty after trimming: break.
ReadBlankLine ==
    /\ pc = "reading"
    /\ HasNext
    /\ NextItem.ok
    /\ IsBlank(NextItem.line)
    /\ pos' = pos + 1
    /\ pc' = "terminated"
    /\ UNCHANGED <<input, league, tokens, match_result, standings, table,
                   stdout, stderr, exit_code>>

\* lex returns None: the diagnostic with the 1-indexed line, then exit(1).
InvalidInput ==
    /\ pc = "reading"
    /\ HasNext
    /\ NextItem.ok
    /\ ~IsBlank(NextItem.line)
    /\ lex(NextItem.line).kind = "None"
    /\ pos' = pos + 1
    /\ stderr' = Append(stderr, [kind |-> "invalid input on line", line |-> ReportedLine(line_n)])
    /\ exit_code' = 1
    /\ pc' = "exited"
    /\ UNCHANGED <<input, league, tokens, match_result, standings, table, stdout>>

\* lex panics on tokens[1]: the panic message, then the process ends with 101.
LexPanics ==
    /\ pc = "reading"
    /\ HasNext
    /\ NextItem.ok
    /\ ~IsBlank(NextItem.line)
    /\ lex(NextItem.line).kind = "Panic"
    /\ pos' = pos + 1
    /\ stderr' = Append(stderr, [kind |-> "index out of bounds",
                                 len |-> lex(NextItem.line).len,
                                 index |-> lex(NextItem.line).index])
    /\ exit_code' = 101
    /\ pc' = "panicked"
    /\ UNCHANGED <<input, league, tokens, match_result, standings, table, stdout>>

\* One iteration of the loop on a line lex accepts, of the given kind of result.
ProcessLine(kind) ==
    /\ pc = "reading"
    /\ HasNext
    /\ NextItem.ok
    /\ ~IsBlank(NextItem.line)
    /\ lex(NextItem.line).kind = "Some"
    /\ parse(lex(NextItem.line)).kind = kind
    /\ pos' = pos + 1
    /\ tokens' = lex(NextItem.line)
    /\ match_result' = parse(tokens')
    /\ league' = Accumulate(league, match_result')
    /\ UNCHANGED <<input, standings, table, stdout, stderr, exit_code, pc>>

AccumulateWin == ProcessLine("Win")

AccumulateDraw == ProcessLine("Draw")

\* After the loop: collect the entries in the map's order, sort, render, return.
SortAndRender ==
    /\ pc = "terminated"
    /\ \E v \in IterOrders(league) :
          /\ standings' = SortBy(v)
          /\ table' = Render(standings')
    /\ pc' = "returned"
    /\ UNCHANGED <<input, pos, league, tokens, match_result, stdout, stderr,
                   exit_code>>

\* main prints the returned table and ends normally.
WriteOutput ==
    /\ pc = "returned"
    /\ stdout' = stdout \o table
    /\ exit_code' = 0
    /\ pc' = "done"
    /\ UNCHANGED <<input, pos, league, tokens, match_result, standings, table,
                   stderr>>

Next ==
    \/ ReadEndOfInput
    \/ ReadFailure
    \/ ReadBlankLine
    \/ InvalidInput
    \/ LexPanics
    \/ AccumulateWin
    \/ AccumulateDraw
    \/ SortAndRender
    \/ WriteOutput

Spec == Init /\ [][Next]_vars

(***************************************************************************)
(* Properties                                                              *)
(***************************************************************************)

\* A line all of whose characters are whitespace.
AllWhitespace(l) == \A i \in 1..Len(l) : IsWhitespace(l[i])

\* The reader item it is a line that is not blank.
IsDataLine(it) == it.ok /\ ~AllWhitespace(it.line)

\* The first n items of the input, as lines.
LinesUpTo(n) == [i \in 1..n |-> input[i].line]

\* How many of the items read so far went through lex, parse and the match:
\* all of them, but the last when it ended the loop or the program.
NumProcessed ==
    IF pos > 0 /\ (pc # "reading") /\
       (~IsDataLine(input[pos]) \/ lex(input[pos].line).kind # "Some")
    THEN pos - 1
    ELSE pos

\* The name written in one comma-separated piece: its words but the last.
NameOfPiece(piece) ==
    LET parts == SplitWhitespace(piece)
    IN  Join(SubSeq(parts, 1, Len(parts) - 1), <<" ">>)

\* The team names that appear on a line, one per comma-separated piece.
NamesOnLine(l) ==
    LET pieces == SplitTerminator(l, ",")
    IN  { NameOfPiece(pieces[i]) : i \in 1..Len(pieces) }

\* The points team t earns on an accepted line: 3 on the side with the
\* greater score, 1 on each side of equal scores, 0 otherwise.
Earned(t, l) ==
    LET tk == lex(l)
        x  == tk.team1.score
        y  == tk.team2.score
    IN  (IF t = tk.team1.name THEN (IF x > y THEN 3 ELSE IF x = y THEN 1 ELSE 0) ELSE 0)
      + (IF t = tk.team2.name THEN (IF y > x THEN 3 ELSE IF x = y THEN 1 ELSE 0) ELSE 0)

RECURSIVE EarnedOver(_, _)
EarnedOver(t, ls) ==
    IF ls = <<>> THEN 0 ELSE Earned(t, Head(ls)) + EarnedOver(t, Tail(ls))

\* C1: after any sequence of accepted lines, every team name that appears on
\* one of them is a key of the league with the points it earned over them.
C1_EveryNamedTeamHasItsPoints ==
    \A i \in 1..NumProcessed :
        \A t \in NamesOnLine(input[i].line) :
            /\ t \in DOMAIN league
            /\ league[t] = EarnedOver(t, LinesUpTo(NumProcessed))

\* C2: a line that fails lexing at 1-indexed position n halts the program
\* there: the diagnostic names n, the exit status is not zero, nothing is
\* rendered or printed and no later line is read.
C2_LexFailureHalts ==
    \A n \in 1..pos :
        (IsDataLine(input[n]) /\ lex(input[n].line).kind = "None") =>
            /\ pc = "exited"
            /\ pos = n
            /\ stderr = <<[kind |-> "invalid input on line", line |-> n]>>
            /\ exit_code # 0 /\ exit_code # -1
            /\ standings = <<>> /\ table = <<>> /\ stdout = <<>>

\* C2 witness: the third line fails lexing after two lines earned points.
C2_Witness ==
    /\ pc = "exited"
    /\ pos = 3
    /\ Cardinality(DOMAIN league) >= 2
    /\ stderr # <<>>

\* The league after a sequence of accepted lines, from an empty one.
RECURSIVE LeagueAfter(_)
LeagueAfter(ls) ==
    IF ls = <<>> THEN EmptyLeague
    ELSE Accumulate(LeagueAfter(SubSeq(ls, 1, Len(ls) - 1)),
                    parse(lex(ls[Len(ls)])))

\* The table of a league, whatever order the map yields it in.
TableOf(lg) == Render(SortBy(CHOOSE v \in IterOrders(lg) : TRUE))

\* The reader has yielded all items, and all of them were accepted lines.
AtEndOfInput == pos = Len(input) /\ NumProcessed = pos

\* C3: a blank line ends the reading without error and nothing after it is
\* read; the program then prints what it prints when the input ends where
\* the blank line is.
C3_BlankLineEndsInput ==
    /\ \A k \in 1..pos :
          (input[k].ok /\ AllWhitespace(input[k].line)) =>
              /\ pos = k
              /\ pc \in {"terminated", "returned", "done"}
              /\ league = LeagueAfter(LinesUpTo(k - 1))
              /\ stderr = <<>>
              /\ exit_code \in {-1, 0}
              /\ (pc = "done" =>
                    stdout = TableOf(LeagueAfter(LinesUpTo(k - 1))) /\ exit_code = 0)
    /\ (pc = "done" /\ AtEndOfInput) =>
          /\ stdout = TableOf(LeagueAfter(LinesUpTo(pos)))
          /\ stderr = <<>>
          /\ exit_code = 0

\* C3 witness: a line, then a line of spaces, then a malformed line never read.
C3_Witness ==
    /\ pc = "done"
    /\ Len(input) = 3
    /\ pos = 2
    /\ input[2] = Ok(LineSpaces)
    /\ input[3] = Ok(LineNotNumber)
    /\ stdout # <<>>

\* C4: consecutive rows have strictly decreasing points, or equal points and
\* strictly increasing team names.
C4_RowsOrdered ==
    pc \in {"returned", "done"} =>
        \A i \in 1..(Len(standings) - 1) :
            \/ standings[i].score > standings[i + 1].score
            \/ /\ standings[i].score = standings[i + 1].score
               /\ StrCmp(standings[i].team, standings[i + 1].team) = -1

\* C4 witness: a table of four rows with a tie and with different points.
C4_Witness ==
    /\ pc = "returned"
    /\ Len(standings) = 4
    /\ \E i \in 1..3 : standings[i].score = standings[i + 1].score
    /\ \E i \in 1..3 : standings[i].score > standings[i + 1].score

\* The lines of the printed table.
TableRows == SplitTerminator(table, "\n")

\* C5: the table has one row per team of the league, and the row at position
\* i starts with the rank i: ranks are 1..n, also between tied teams.
C5_RanksContiguous ==
    pc \in {"returned", "done"} =>
        /\ Len(TableRows) = Cardinality(DOMAIN league)
        /\ Len(standings) = Len(TableRows)
        /\ { standings[i].team : i \in 1..Len(standings) } = DOMAIN league
        /\ \A i \in 1..Len(TableRows) :
              /\ standings[i].score = league[standings[i].team]
              /\ TableRows[i] =
                    ToDecimal(i) \o <<".", " ">> \o standings[i].team \o <<" ">>
                        \o ToDecimal(standings[i].score) \o <<" ">>
                        \o (IF standings[i].score = 1 THEN <<"p", "t">>
                                                      ELSE <<"p", "t", "s">>)

\* C5 witness: a table of four rows, two of them tied.
C5_Witness ==
    /\ pc = "done"
    /\ Len(TableRows) = 4
    /\ \E i \in 1..3 : standings[i].score = standings[i + 1].score

\* The points of team t in league lg, 0 when it has no entry.
PointsOr0(lg, t) == IF t \in DOMAIN lg THEN lg[t] ELSE 0

\* A step of the loop that processed a line classified as kind.
ProcessedStep(kind) ==
    /\ pc = "reading" /\ pc' = "reading"
    /\ pos' = pos + 1
    /\ match_result'.kind = kind

\* C6: applying Win{won, lost} adds 3 to the winner or inserts it at 3, then
\* inserts the loser at 0 if it has no entry and leaves a present loser's
\* points alone; every other entry is unchanged.  (When the same team is on
\* both sides, it has its entry as winner by the time it is looked up as loser.)
C6_WinUpdate ==
    [][ProcessedStep("Win") =>
          LET w == match_result'.won
              l == match_result'.lost
          IN  /\ DOMAIN league' = DOMAIN league \cup {w, l}
              /\ league'[w] = IF w \in DOMAIN league THEN league[w] + 3 ELSE 3
              /\ l # w => league'[l] = IF l \in DOMAIN league THEN league[l] ELSE 0
              /\ \A t \in DOMAIN league \ {w, l} : league'[t] = league[t]
       ]_vars

\* C6 witness: a win over a team that already had points, by a team that had some.
C6_Witness ==
    /\ pc = "reading"
    /\ match_result.kind = "Win"
    /\ match_result.won # match_result.lost
    /\ league[match_result.lost] > 0
    /\ league[match_result.won] > 3
    /\ Cardinality(DOMAIN league) >= 3

\* C7: applying Draw(team1, team2) adds 1 to each participant, inserting an
\* absent one at 1, and leaves every other entry unchanged.
C7_DrawUpdate ==
    [][ProcessedStep("Draw") =>
          LET a == match_result'.team1
              b == match_result'.team2
          IN  /\ DOMAIN league' = DOMAIN league \cup {a, b}
              /\ \A t \in {a, b} :
                    league'[t] = PointsOr0(league, t)
                                   + (IF t = a THEN 1 ELSE 0)
                                   + (IF t = b THEN 1 ELSE 0)
              /\ \A t \in DOMAIN league \ {a, b} : league'[t] = league[t]
       ]_vars

\* C7 witness: a draw between a team that had points and a new team.
C7_Witness ==
    /\ pc = "reading"
    /\ match_result.kind = "Draw"
    /\ match_result.team1 # match_result.team2
    /\ league[match_result.team1] = 1
    /\ league[match_result.team2] > 1
    /\ Cardinality(DOMAIN league) >= 3

\* C8: parse of ((A, x), (B, y)) is Win{won: A, lost: B} when x > y,
\* Win{won: B, lost: A} when x < y and Draw(A, B) when x = y, always one of them.
C8_Classification ==
    tokens.kind = "Some" =>
        LET A == tokens.team1.name
            x == tokens.team1.score
            B == tokens.team2.name
            y == tokens.team2.score
        IN  /\ match_result.kind \in {"Win", "Draw"}
            /\ x > y => match_result = [kind |-> "Win", won |-> A, lost |-> B]
            /\ x < y => match_result = [kind |-> "Win", won |-> B, lost |-> A]
            /\ x = y => match_result = [kind |-> "Draw", team1 |-> A, team2 |-> B]

\* C8 witness: the second team of the line scored more and is the winner.
C8_Witness ==
    /\ tokens.kind = "Some"
    /\ tokens.team1.score < tokens.team2.score
    /\ match_result.kind = "Win"
    /\ match_result.won = tokens.team2.name

\* C9: a line the comma split breaks into more than two halves is rejected:
\* the program halts on it with the diagnostic naming it, and no team of the
\* line gains an entry or points.
C9_MoreThanTwoHalfsRejected ==
    \A n \in 1..pos :
        (IsDataLine(input[n]) /\ Len(SplitTerminator(input[n].line, ",")) > 2) =>
            /\ pc = "exited"
            /\ pos = n
            /\ stderr = <<[kind |-> "invalid input on line", line |-> n]>>
            /\ league = LeagueAfter(LinesUpTo(n - 1))

\* C10: a non-blank line without a comma fails lexing like any malformed
\* line: the program halts with the diagnostic naming the line and exit
\* status 1, and in no other way.
C10_NoCommaIsMalformedLine ==
    \A n \in 1..pos :
        (IsDataLine(input[n]) /\ \A i \in 1..Len(input[n].line) : input[n].line[i] # ",") =>
            /\ pc = "exited"
            /\ pos = n
            /\ stderr = <<[kind |-> "invalid input on line", line |-> n]>>
            /\ exit_code = 1

\* The pieces of a line between its commas, empty ones included.
PiecesOf(l) == Split(l, ",")

\* Whether word w is written as a non-negative integer.
IsNonNegativeInteger(w) ==
    LET ds == IF w # <<>> /\ Head(w) = "+" THEN Tail(w) ELSE w
    IN  ds # <<>> /\ \A i \in 1..Len(ds) : IsDigit(ds[i])

\* The last whitespace-separated word of a piece that has one.
LastWord(piece) ==
    LET parts == SplitWhitespace(piece) IN parts[Len(parts)]

\* The program halted on line n with the diagnostic that names it.
RejectedAt(n) ==
    /\ pc = "exited"
    /\ pos = n
    /\ stderr = <<[kind |-> "invalid input on line", line |-> n]>>
    /\ exit_code = 1

\* C11: a line one of whose comma-separated pieces is empty after trimming
\* (the first, a middle or the last one, as after a trailing comma), or ends
\* in a word that is not a non-negative integer, is rejected as malformed.
C11_EmptyPieceOrBadScoreRejected ==
    \A n \in 1..pos :
        (/\ IsDataLine(input[n])
         /\ \E i \in 1..Len(PiecesOf(input[n].line)) :
               LET piece == PiecesOf(input[n].line)[i]
               IN  \/ AllWhitespace(piece)
                   \/ ~IsNonNegativeInteger(LastWord(piece)))
        => RejectedAt(n)

\* C12: every key of the league is a non-empty team name.
C12_TeamNamesNonEmpty ==
    \A t \in DOMAIN league : t # <<>>

\* C13: the result is a function of the input lines alone: the league is the
\* league of the processed lines, and every order in which the map can yield
\* its entries gives the table that was rendered.
C13_Deterministic ==
    /\ league = LeagueAfter(LinesUpTo(NumProcessed))
    /\ pc \in {"returned", "done"} =>
          \A v \in IterOrders(league) : Render(SortBy(v)) = table

\* C13 witness: a rendered table of four teams with tied teams.
C13_Witness ==
    /\ pc = "returned"
    /\ Len(standings) = 4
    /\ \E i \in 1..3 : standings[i].score = standings[i + 1].score
    /\ table # <<>>

\* C14: no step removes a key of the league or lowers a team's points.
C14_LeagueNeverShrinks ==
    [][/\ DOMAIN league \subseteq DOMAIN league'
       /\ \A t \in DOMAIN league : league'[t] >= league[t]]_vars

\* C14 witness: three lines processed, a team that lost after it had points.
C14_Witness ==
    /\ pc = "reading"
    /\ pos = 3
    /\ match_result.kind = "Win"
    /\ match_result.won # match_result.lost
    /\ league[match_result.lost] > 0

\* A name without whitespace at its ends and with single spaces between words.
IsNormalized(name) ==
    /\ name # <<>> => ~IsWhitespace(name[1]) /\ ~IsWhitespace(name[Len(name)])
    /\ \A i \in 1..Len(name) : IsWhitespace(name[i]) => name[i] = " "
    /\ \A i \in 1..(Len(name) - 1) : ~(name[i] = " " /\ name[i + 1] = " ")

\* The integer a word of digits (after an optional '+') stands for.
ValueOfWord(w) ==
    DigitsValue(IF w # <<>> /\ Head(w) = "+" THEN Tail(w) ELSE w)

\* The (name, score) tuple the claim gives for one half.
TupleOfHalf(half) ==
    [name |-> NameOfPiece(half), score |-> ValueOfWord(LastWord(half))]

\* C15: for an accepted line the tokens are the tuples of its first and its
\* second half, in that order: the name is the half's words but the last
\* joined by single spaces, the score the value of the last word.  So every
\* key of the league is a normalized name, and the names on the processed
\* lines are keys whatever whitespace separated their words.
C15_LexTuples ==
    /\ tokens.kind = "Some" =>
          LET l == input[NumProcessed].line
          IN  /\ tokens.team1 = TupleOfHalf(PiecesOf(l)[1])
              /\ tokens.team2 = TupleOfHalf(PiecesOf(l)[2])
              /\ IsNormalized(tokens.team1.name)
              /\ IsNormalized(tokens.team2.name)
    /\ \A t \in DOMAIN league : IsNormalized(t)
    /\ \A i \in 1..NumProcessed : \A k \in 1..2 :
          NameOfPiece(PiecesOf(input[i].line)[k]) \in DOMAIN league

\* C15 witness: "A  B" and "A B" were processed and share one key.
C15_Witness ==
    /\ pc = "reading"
    /\ pos = 2
    /\ input[1] = Ok(LineTwoWords)
    /\ input[2] = Ok(LineTrailingComma)
    /\ DOMAIN league = { <<"A">>, <<"B">>, <<"A", " ", "B">> }
    /\ league[<<"A", " ", "B">>] = 1

\* Whether s ends with e.
EndsWith(s, e) ==
    Len(e) <= Len(s) /\ SubSeq(s, Len(s) - Len(e) + 1, Len(s)) = e

\* C16: a row ends in " pt" exactly when its team has 1 point, and in
\* " pts" for every other number of points, 0 included.
C16_UnitSuffix ==
    pc \in {"returned", "done"} =>
        \A i \in 1..Len(TableRows) :
            LET points == league[standings[i].team]
                number == ToDecimal(points)
            IN  /\ EndsWith(TableRows[i], number \o <<" ", "p", "t">>) <=> points = 1
                /\ EndsWith(TableRows[i], number \o <<" ", "p", "t", "s">>) <=> points # 1

\* C16 witness: a table with a team at 1 point, one at 0 and one above 1.
C16_Witness ==
    /\ pc = "done"
    /\ \E i \in 1..Len(standings) : standings[i].score = 1
    /\ \E i \in 1..Len(standings) : standings[i].score = 0
    /\ \E i \in 1..Len(standings) : standings[i].score > 1

\* The input is empty or starts with a blank line.
EmptyInput ==
    \/ Len(input) = 0
    \/ input[1].ok /\ AllWhitespace(input[1].line)

\* C17: when the first line is blank or the input ends before any line, the
\* program ends normally with an empty league and prints nothing, without error.
C17_EmptyInputEmptyOutput ==
    EmptyInput =>
        /\ league = EmptyLeague
        /\ standings = <<>> /\ table = <<>> /\ stdout = <<>>
        /\ stderr = <<>>
        /\ pc \in {"reading", "terminated", "returned", "done"}
        /\ pc = "reading" => pos = 0
        /\ exit_code = (IF pc = "done" THEN 0 ELSE -1)

\* C17 witness: a line of spaces first, lines after it, and the program done.
C17_Witness ==
    /\ pc = "done"
    /\ Len(input) = 3
    /\ input[1] = Ok(LineSpaces)
    /\ input[2] = Ok(LineAWinsB)
    /\ pos = 1

\* The sum of the points of all teams of a league.
RECURSIVE SumPoints(_)
SumPoints(lg) ==
    IF DOMAIN lg = {} THEN 0
    ELSE LET t == CHOOSE u \in DOMAIN lg : TRUE
         IN  lg[t] + SumPoints([u \in DOMAIN lg \ {t} |-> lg[u]])

\* Whether the two scores lexed from an accepted line differ.
ScoresDiffer(l) == lex(l).team1.score # lex(l).team2.score

\* How many of the processed lines are wins, and how many are draws.
NumWins == Cardinality({ i \in 1..NumProcessed : ScoresDiffer(input[i].line) })
NumDraws == Cardinality({ i \in 1..NumProcessed : ~ScoresDiffer(input[i].line) })

\* C18: the points of all teams add up to 3 per processed Win line plus 2
\* per processed Draw line, also when a line names one team on both sides.
C18_TotalPoints ==
    SumPoints(league) = 3 * NumWins + 2 * NumDraws

\* C18 witness: a team beat itself, drew with itself and drew with another.
C18_Witness ==
    /\ pc = "reading"
    /\ pos = 3
    /\ \E i \in 1..3 : input[i] = Ok(LineSelfWin)
    /\ \E i \in 1..3 : input[i] = Ok(LineSelfDraw)
    /\ \E i \in 1..3 : input[i] = Ok(LineDraw)
    /\ SumPoints(league) = 7

\* The pieces joined again with commas.
RECURSIVE JoinPieces(_)
JoinPieces(ps) ==
    IF Len(ps) = 1 THEN ps[1]
    ELSE ps[1] \o <<",">> \o JoinPieces(Tail(ps))

\* The line with its first two halves written in the other order.
SwapHalves(l) ==
    LET ps == PiecesOf(l)
    IN  JoinPieces(<<ps[2], ps[1]>> \o SubSeq(ps, 3, Len(ps)))

\* The arrangements of 1..n.
Permutations1(n) ==
    { p \in [1..n -> 1..n] : \A i, j \in 1..n : i # j => p[i] # p[j] }

\* The processed lines in the order p, those of index in S with halves swapped.
Rearranged(p, S) ==
    [i \in 1..NumProcessed |->
        IF p[i] \in S THEN SwapHalves(input[p[i]].line) ELSE input[p[i]].line]

\* The order in which the lines were read.
AsRead == [i \in 1..NumProcessed |-> i]

\* C19: the final league, and so the table, is the same for every order of
\* the processed lines and for every choice of lines whose halves are swapped.
\* (The league is final when the loop has ended.  Every rearranged input is
\* itself an input explored, so the two parts together cover a reordering
\* combined with swaps.)
C19_OrderIndependent ==
    /\ pc = "terminated" =>
          /\ \A p \in Permutations1(NumProcessed) :
                LeagueAfter(Rearranged(p, {})) = league
          /\ \A S \in SUBSET (1..NumProcessed) :
                LeagueAfter(Rearranged(AsRead, S)) = league
    /\ pc \in {"returned", "done"} =>
          /\ league = LeagueAfter(LinesUpTo(NumProcessed))
          /\ table = TableOf(league)

\* C19 witness: three different lines with wins either way were processed.
C19_Witness ==
    /\ pc = "returned"
    /\ NumProcessed = 3
    /\ input[1] = Ok(LineAWinsB)
    /\ input[2] = Ok(LineBWinsA)
    /\ input[3] = Ok(LineTwoWords)

\* C20: a read error ends the loop as the end of the input does: nothing is
\* written to the error channel, the program does not halt in error, and the
\* table printed is that of the lines read before the failure.
C20_ReadErrorEndsInput ==
    \A k \in 1..pos :
        ~input[k].ok =>
            /\ pos = k
            /\ pc \in {"terminated", "returned", "done"}
            /\ stderr = <<>>
            /\ exit_code \in {-1, 0}
            /\ league = LeagueAfter(LinesUpTo(k - 1))
            /\ pc \in {"returned", "done"} => table = TableOf(LeagueAfter(LinesUpTo(k - 1)))
            /\ pc = "done" => stdout = table /\ exit_code = 0

\* C20 witness: two lines, then a read error, and the table of the two printed.
C20_Witness ==
    /\ pc = "done"
    /\ pos = 3
    /\ input[3] = ReadError
    /\ Cardinality(DOMAIN league) >= 2
    /\ stdout # <<>>

====
